---- MODULE Spec2Model ----
(***************************************************************************)
(* Model of Code/tools.py: rejection samplers for the von Mises            *)
(* distribution, the polar normal sampler, the acceptance-rate estimators  *)
(* and the unnormalised von Mises density.                                 *)
(*                                                                         *)
(* Numbers.  Angles are integers counting units of pi/6, so np.pi is 6 and *)
(* 2*np.pi is 12.  Other reals are exact rationals <<num, den>>.  np.exp   *)
(* and np.log are evaluated in fixed point with four decimals (an integer  *)
(* v stands for v / Scale).  The uniform source supplies the members of    *)
(* Uniforms, a finite subset of [0, 1].                                    *)
(*                                                                         *)
(* Control.  Each function is run from "start".  A sampler's proposal      *)
(* round leads to "test", where the while condition is evaluated: either   *)
(* the loop body is entered ("body") or the function returns ("done");     *)
(* "wrap" is the return statement reached from the kappa == 0 branch.      *)
(* The per-round arrays (sample, val, f, c and the test uniforms) are dead *)
(* once the while condition has been evaluated and are emptied there.      *)
(***************************************************************************)
EXTENDS Integers, Sequences, FiniteSets

\* ------------------------------------------------------------------ bounds
MaxN == 2          \* largest requested sample size n

\* --------------------------------------------------------------- constants
Pi == 6            \* np.pi, in units of pi/6
Scale == 10000     \* fixed-point denominator for np.exp / np.log values

\* -------------------------------------------------------- exact rationals
Abs(a) == IF a < 0 THEN 0 - a ELSE a

\* integer division truncating toward zero
IDiv(a, b) == IF a >= 0 THEN a \div b ELSE 0 - ((0 - a) \div b)

RECURSIVE GCD(_, _)
GCD(a, b) == IF b = 0 THEN a ELSE GCD(b, a % b)

Norm(a, b) ==
    LET g == GCD(Abs(a), Abs(b))
        s == IF b < 0 THEN 0 - 1 ELSE 1
    IN  << (s * a) \div g, (s * b) \div g >>

Rat(k) == << k, 1 >>
RAdd(p, q) == Norm(p[1] * q[2] + q[1] * p[2], p[2] * q[2])
RSub(p, q) == Norm(p[1] * q[2] - q[1] * p[2], p[2] * q[2])
RMul(p, q) == Norm(p[1] * q[1], p[2] * q[2])
RDiv(p, q) == Norm(p[1] * q[2], p[2] * q[1])
RSign(p) == IF p[1] > 0 THEN 1 ELSE IF p[1] < 0 THEN 0 - 1 ELSE 0

IRoot(k) == CHOOSE s \in 0..k : s * s = k
\* np.sqrt on a rational whose root is rational
RSqrt(p) == << IRoot(p[1]), IRoot(p[2]) >>

\* rational -> fixed point
Fixed(p) == IDiv(p[1] * Scale, p[2])

\* -------------------------------------------------- transcendental values
\* np.cos at a multiple a of pi/6 whose cosine is rational (a even, or a
\* an odd multiple of 3)
Cos(a) ==
    LET m == a % 12
    IN  IF m = 0 THEN << 1, 1 >>
        ELSE IF m \in {2, 10} THEN << 1, 2 >>
        ELSE IF m \in {3, 9} THEN << 0, 1 >>
        ELSE IF m \in {4, 8} THEN << 0 - 1, 2 >>
        ELSE << 0 - 1, 1 >>

\* np.arccos at the rationals whose arc cosine is a multiple of pi/6
ArcCosExact(p) == p \in { <<1, 1>>, <<1, 2>>, <<0, 1>>, <<0 - 1, 2>>, <<0 - 1, 1>> }
ArcCos(p) ==
    IF p = << 1, 1 >> THEN 0
    ELSE IF p = << 1, 2 >> THEN 2
    ELSE IF p = << 0, 1 >> THEN 3
    ELSE IF p = << 0 - 1, 2 >> THEN 4
    ELSE 6

\* np.exp(a/b) in fixed point: Taylor series, term k = term (k-1) * a / (b k)
RECURSIVE ExpSum(_, _, _, _)
ExpSum(term, a, b, k) ==
    IF term = 0 THEN 0 ELSE term + ExpSum(IDiv(term * a, b * k), a, b, k + 1)
Exp(p) == ExpSum(Scale, p[1], p[2], 1)

\* np.log(a/b) in fixed point for a/b > 0: 2 * atanh((a-b)/(a+b))
RECURSIVE LogSum(_, _, _)
LogSum(pow, y, k) ==
    IF pow = 0 THEN 0
    ELSE IDiv(pow, 2 * k + 1) + LogSum(IDiv(IDiv(pow * y, Scale) * y, Scale), y, k + 1)
Log(p) ==
    LET y == IDiv((p[1] - p[2]) * Scale, p[1] + p[2])
    IN  2 * LogSum(y, y, 0)

\* np.sqrt of a non-negative fixed-point value (Newton iteration)
RECURSIVE Newton(_, _)
Newton(t, g) ==
    LET h == (g + t \div g) \div 2
    IN  IF h >= g THEN g ELSE Newton(t, h)
SqrtFixed(t) == IF t <= 0 THEN 0 ELSE Newton(t, t) * 100

\* ------------------------------------------------------------ array tools
RECURSIVE MaskFrom(_, _, _)
MaskFrom(a, keep, i) ==
    IF i > Len(a) THEN << >>
    ELSE (IF keep[i] THEN << a[i] >> ELSE << >>) \o MaskFrom(a, keep, i + 1)

\* mutation: the mask is read one position late (candidate i judged by test i+1)
MaskShifted(a, keep) ==
    MaskFrom(a, [i \in 1..Len(a) |-> keep[(i % Len(a)) + 1]], 1)

\* numpy boolean indexing a[keep]
Mask(a, keep) == MaskFrom(a, keep, 1)

\* ---------------------------------------------------------- uniform source
\* values of np.random.uniform(0, 1) the model follows
Uniforms == { <<0, 1>>, <<1, 2>>, <<2, 3>>, <<1, 1>> }

\* uniform(n): the possible batches of n draws
BatchTable == [m \in 0..(MaxN + 1) |-> [1..m -> Uniforms]]
uniform(m) == BatchTable[m]

\* uniform_1: u * 2 - 1
uniform_1(us) == [i \in 1..Len(us) |-> RSub(RMul(us[i], Rat(2)), Rat(1))]

\* uniform_pi: u * 2 * pi - pi, an angle in units of pi/6
uniform_pi(us) ==
    [i \in 1..Len(us) |-> (us[i][1] * 2 * Pi) \div us[i][2] - Pi]

\* ------------------------------------------------------------- parameters
Zero == << 0, 1 >>
Unset == << 0, 0 >>                    \* a local that was never assigned
Mus == { 0 - 8, 0, 4 }                 \* mu, in units of pi/6
Kappas == { Zero, << 20, 9 >> }        \* kappa
Ns == 1..MaxN

\* mutation: the wrap forgets the final "- np.pi"
WrapNoRecentre(v, m) == (v + Pi + m) % (2 * Pi)

\* mutation: the wrap forgets mu
WrapNoMu(v, m) == ((v + Pi) % (2 * Pi)) - Pi

\* (v + np.pi + mu) % (2 * np.pi) - np.pi
Wrap(v, m) == ((v + Pi + m) % (2 * Pi)) - Pi

VARIABLES
    pc,         \* "idle", "start", "test", "body", "wrap", "done"
    fn,         \* the function being executed
    mu, kappa, n,
    sample,     \* candidates of the latest round
    val,        \* von_mises_unif: acceptance values of the latest round
    f, c,       \* von_mises_cauchy: f and c of the latest round
    acc,        \* the uniforms the latest acceptance test compared against
    von_mises,  \* accepted values
    r,          \* von_mises_cauchy: << tau, rho, r >>
    result,     \* the returned value
    topped,     \* TRUE once a top-up round has run
    mean, std,  \* normal: arguments
    X, U,       \* normal: kept X and U = X**2 + Y**2
    xb, ub,     \* normal: x and u of the latest round, before filtering
    xarg        \* von_mises_density: the point x

vars == << pc, fn, mu, kappa, n, sample, val, f, c, acc, von_mises, r,
           result, topped, mean, std, X, U, xb, ub, xarg >>

normalVars == << mean, std, X, U, xb, ub >>

Init ==
    /\ pc = "idle" /\ fn = "none"
    /\ mu = 0 /\ kappa = Zero /\ n = 1
    /\ sample = << >> /\ val = << >> /\ f = << >> /\ c = << >> /\ acc = << >>
    /\ von_mises = << >>
    /\ r = << Unset, Unset, Unset >>
    /\ result = << >>
    /\ topped = FALSE
    /\ mean = 0 /\ std = 1
    /\ X = << >> /\ U = << >> /\ xb = << >> /\ ub = << >>
    /\ xarg = 0

Call(name, m, k, cnt) ==
    /\ pc = "idle"
    /\ pc' = "start" /\ fn' = name
    /\ mu' = m /\ kappa' = k /\ n' = cnt
    /\ UNCHANGED << sample, val, f, c, acc, von_mises, r, result, topped,
                    mean, std, X, U, xb, ub, xarg >>

\* while len(von_mises) < n: the condition holds and the body is entered
Continue(name) ==
    /\ pc = "test" /\ fn = name
    /\ Len(von_mises) < n
    /\ pc' = "body"
    /\ sample' = << >> /\ val' = << >> /\ f' = << >> /\ c' = << >> /\ acc' = << >>
    /\ UNCHANGED << fn, mu, kappa, n, von_mises, r, result, topped,
                    normalVars, xarg >>

\* ---------------------------------------------------------- von_mises_unif
\* np.exp(kappa * (np.cos(sample - mu) - 1)) for one candidate
ValAt(a, m, k) == Exp(RMul(k, RSub(Cos(a - m), Rat(1))))
ValTable == [d \in { a - m : a \in (0 - Pi)..Pi, m \in Mus }, k \in Kappas |-> ValAt(d, 0, k)]
UnifVal(s, m, k) == [i \in 1..Len(s) |-> ValTable[s[i] - m, k]]

\* mutation: strict comparison
UnifTestStrict(us, v) == [i \in 1..Len(us) |-> Fixed(us[i]) < v[i]]

\* uniform(n) <= val
UnifTest(us, v) == [i \in 1..Len(us) |-> Fixed(us[i]) <= v[i]]

\* one proposal round of m candidates appended to the accepted set `old`
UnifRound(m, old) ==
    \E us \in uniform(m), ua \in uniform(m) :
        LET s == uniform_pi(us)
            v == UnifVal(s, mu, kappa)
        IN  /\ sample' = s
            /\ val' = v
            /\ acc' = ua
            /\ von_mises' = old \o Mask(s, UnifTest(ua, v))

Call_von_mises_unif ==
    \E m \in Mus, k \in Kappas, cnt \in Ns : Call("von_mises_unif", m, k, cnt)

von_mises_unif_First ==
    /\ pc = "start" /\ fn = "von_mises_unif"
    /\ UnifRound(n, << >>)
    /\ pc' = "test"
    /\ UNCHANGED << fn, mu, kappa, n, f, c, r, result, topped, normalVars, xarg >>

von_mises_unif_Continue == Continue("von_mises_unif")

von_mises_unif_TopUp ==
    /\ pc = "body" /\ fn = "von_mises_unif"
    /\ UnifRound(n - Len(von_mises), von_mises)
    /\ topped' = TRUE
    /\ pc' = "test"
    /\ UNCHANGED << fn, mu, kappa, n, f, c, r, result, normalVars, xarg >>

von_mises_unif_Return ==
    /\ pc = "test" /\ fn = "von_mises_unif"
    /\ ~ (Len(von_mises) < n)
    /\ result' = von_mises
    /\ pc' = "done"
    /\ UNCHANGED << fn, mu, kappa, n, sample, val, f, c, acc, von_mises, r,
                    topped, normalVars, xarg >>

\* -------------------------------------------------------- von_mises_cauchy
\* tau = 1 + np.sqrt(1 + 4 * kappa**2)
Tau(k) == RAdd(Rat(1), RSqrt(RAdd(Rat(1), RMul(Rat(4), RMul(k, k)))))
\* rho = (tau - np.sqrt(2 * tau)) / (2 * kappa)
Rho(k) == RDiv(RSub(Tau(k), RSqrt(RMul(Rat(2), Tau(k)))), RMul(Rat(2), k))
\* r = (1 + rho**2) / (2 * rho)
REnv(k) == RDiv(RAdd(Rat(1), RMul(Rho(k), Rho(k))), RMul(Rat(2), Rho(k)))
CauchyParams(k) == << Tau(k), Rho(k), REnv(k) >>

\* z = np.cos(np.pi * u) for one draw u
ZAt(u) == Cos((u[1] * Pi) \div u[2])
\* f = (1 + r * z) / (r + z)
FAt(z, rr) == RDiv(RAdd(Rat(1), RMul(rr, z)), RAdd(rr, z))
\* c = kappa * (r - f)
CAt(ff, rr, k) == RMul(k, RSub(rr, ff))
\* np.sign(uniform_1) * np.arccos(f) for one candidate
CandAt(ff, u1) == RSign(u1) * ArcCos(ff)

\* np.log(c / u) + 1 - c >= 0 for one candidate; c / 0 is +inf for c > 0
CauchyPass(cc, u) ==
    IF u[1] = 0 THEN cc[1] > 0
    ELSE IF cc[1] <= 0 THEN FALSE
    ELSE Log(RDiv(cc, u)) + Scale - Fixed(cc) >= 0

\* the draws followed at the three sites of a von_mises_cauchy round: for z,
\* the uniforms whose candidate angle is a multiple of pi/6 under envelope rr
ZDraws(rr) == { u \in Uniforms : ArcCosExact(FAt(ZAt(u), rr)) }
SignDraws == { <<0, 1>>, <<1, 2>>, <<1, 1>> }
TestDraws == { <<0, 1>>, <<2, 3>> }

FTable == [u \in Uniforms, k \in Kappas \ {Zero} |-> FAt(ZAt(u), REnv(k))]
CTable == [u \in Uniforms, k \in Kappas \ {Zero} |-> CAt(FTable[u, k], REnv(k), k)]
PassTable ==
    [uz \in Uniforms, ua \in TestDraws, k \in Kappas \ {Zero} |->
        CauchyPass(CTable[uz, k], ua)]
ZBatchTable ==
    [m \in 0..(MaxN + 1), k \in Kappas \ {Zero} |-> [1..m -> ZDraws(REnv(k))]]
SignBatchTable == [m \in 0..(MaxN + 1) |-> [1..m -> SignDraws]]
TestBatchTable == [m \in 0..(MaxN + 1) |-> [1..m -> TestDraws]]

CauchyTest(uz, ua, k) == [i \in 1..Len(uz) |-> PassTable[uz[i], ua[i], k]]

\* one proposal round of m candidates appended to the accepted set `old`
CauchyRound(m, old) ==
    \E uz \in ZBatchTable[m, kappa], us \in SignBatchTable[m],
       ua \in TestBatchTable[m] :
        LET ff == [i \in 1..m |-> FTable[uz[i], kappa]]
            u1 == uniform_1(us)
            s == [i \in 1..m |-> CandAt(ff[i], u1[i])]
        IN  /\ f' = ff
            /\ c' = [i \in 1..m |-> CTable[uz[i], kappa]]
            /\ sample' = s
            /\ acc' = ua
            /\ von_mises' = old \o Mask(s, CauchyTest(uz, ua, kappa))

Call_von_mises_cauchy ==
    \E m \in Mus, k \in Kappas, cnt \in Ns : Call("von_mises_cauchy", m, k, cnt)

\* kappa != 0: tau, rho, r and the first round
von_mises_cauchy_First ==
    /\ pc = "start" /\ fn = "von_mises_cauchy"
    /\ kappa # Zero
    /\ r' = CauchyParams(kappa)
    /\ CauchyRound(n, << >>)
    /\ pc' = "test"
    /\ UNCHANGED << fn, mu, kappa, n, val, result, topped, normalVars, xarg >>

von_mises_cauchy_Continue == Continue("von_mises_cauchy")

\* the loop body draws batches of n, not of n - len(von_mises)
von_mises_cauchy_TopUp ==
    /\ pc = "body" /\ fn = "von_mises_cauchy"
    /\ CauchyRound(n, von_mises)
    /\ topped' = TRUE
    /\ pc' = "test"
    /\ UNCHANGED << fn, mu, kappa, n, val, r, result, normalVars, xarg >>

\* mutation: the kappa == 0 branch still filters its batch by a test
von_mises_cauchy_ElseTested ==
    /\ pc = "start" /\ fn = "von_mises_cauchy"
    /\ kappa = Zero
    /\ \E us \in uniform(n), ua \in uniform(n) :
        /\ von_mises' = Mask(uniform_pi(us), [i \in 1..n |-> Fixed(ua[i]) < Scale])
        /\ acc' = ua
    /\ pc' = "wrap"
    /\ UNCHANGED << fn, mu, kappa, n, sample, val, f, c, r, result, topped,
                    normalVars, xarg >>

\* kappa == 0: von_mises = uniform_pi(n=n)
von_mises_cauchy_Else ==
    /\ pc = "start" /\ fn = "von_mises_cauchy"
    /\ kappa = Zero
    /\ \E us \in uniform(n) : von_mises' = uniform_pi(us)
    /\ pc' = "wrap"
    /\ UNCHANGED << fn, mu, kappa, n, sample, val, f, c, acc, r, result, topped,
                    normalVars, xarg >>

\* return (von_mises + np.pi + mu) % (2 * np.pi) - np.pi
von_mises_cauchy_Return ==
    /\ fn = "von_mises_cauchy"
    /\ pc = "wrap" \/ (pc = "test" /\ ~ (Len(von_mises) < n))
    /\ result' = [i \in 1..Len(von_mises) |-> Wrap(von_mises[i], mu)]
    /\ pc' = "done"
    /\ UNCHANGED << fn, mu, kappa, n, sample, val, f, c, acc, von_mises, r,
                    topped, normalVars, xarg >>

\* ------------------------------------------------------------------ normal
Means == { 0, 1 }
Stds == { 1, 2 }

\* x ** 2 + y ** 2
SumSquares(xs, ys) ==
    [i \in 1..Len(xs) |-> RAdd(RMul(xs[i], xs[i]), RMul(ys[i], ys[i]))]

\* mutation: the unit circle itself is kept
InDiskClosed(us) == [i \in 1..Len(us) |-> 0 < us[i][1] /\ us[i][1] <= us[i][2]]

\* (0 < U) & (U < 1)
InDisk(us) == [i \in 1..Len(us) |-> 0 < us[i][1] /\ us[i][1] < us[i][2]]

\* mean + std * X * np.sqrt(-2 * np.log(U) / U) for one kept pair, fixed point
NormalValue(mn, sd, xv, uv) ==
    LET ratio == IDiv((0 - 2) * Log(uv) * uv[2], uv[1])
    IN  mn * Scale + IDiv(sd * xv[1] * SqrtFixed(ratio), xv[2])
NormalTable ==
    [mn \in Means, sd \in Stds, xv \in { uniform_1(<< w >>)[1] : w \in Uniforms },
     uv \in { q \in { SumSquares(uniform_1(<< w1 >>), uniform_1(<< w2 >>))[1] :
                        w1 \in Uniforms, w2 \in Uniforms } : 0 < q[1] } |->
        NormalValue(mn, sd, xv, uv)]

\* one round of m pairs appended to the kept arrays
NormalRound(m, oldX, oldU) ==
    \E ux \in uniform(m), uy \in uniform(m) :
        LET xs == uniform_1(ux)
            us == SumSquares(xs, uniform_1(uy))
        IN  /\ xb' = xs
            /\ ub' = us
            /\ X' = oldX \o Mask(xs, InDisk(us))
            /\ U' = oldU \o Mask(us, InDisk(us))

Call_normal ==
    /\ pc = "idle"
    /\ \E mn \in Means, sd \in Stds, cnt \in Ns :
        mean' = mn /\ std' = sd /\ n' = cnt
    /\ pc' = "start" /\ fn' = "normal"
    /\ UNCHANGED << mu, kappa, sample, val, f, c, acc, von_mises, r, result,
                    topped, X, U, xb, ub, xarg >>

normal_First ==
    /\ pc = "start" /\ fn = "normal"
    /\ NormalRound(n, << >>, << >>)
    /\ pc' = "test"
    /\ UNCHANGED << fn, mu, kappa, n, sample, val, f, c, acc, von_mises, r,
                    result, topped, mean, std, xarg >>

\* while len(X) < n: the condition holds and the body is entered
normal_Continue ==
    /\ pc = "test" /\ fn = "normal"
    /\ Len(X) < n
    /\ pc' = "body"
    /\ xb' = << >> /\ ub' = << >>
    /\ UNCHANGED << fn, mu, kappa, n, sample, val, f, c, acc, von_mises, r,
                    result, topped, mean, std, X, U, xarg >>

normal_TopUp ==
    /\ pc = "body" /\ fn = "normal"
    /\ NormalRound(n - Len(X), X, U)
    /\ topped' = TRUE
    /\ pc' = "test"
    /\ UNCHANGED << fn, mu, kappa, n, sample, val, f, c, acc, von_mises, r,
                    result, mean, std, xarg >>

normal_Return ==
    /\ pc = "test" /\ fn = "normal"
    /\ ~ (Len(X) < n)
    /\ result' = [i \in 1..Len(X) |-> NormalTable[mean, std, X[i], U[i]]]
    /\ pc' = "done"
    /\ UNCHANGED << fn, mu, kappa, n, sample, val, f, c, acc, von_mises, r,
                    topped, normalVars, xarg >>

\* ---------------------------------------------------- acceptance estimators
\* 100 * von_mises.shape[0] / n
Percent(count, total) == RDiv(Rat(100 * count), Rat(total))

Call_von_mises_unif_acceptance ==
    \E k \in Kappas, cnt \in Ns : Call("von_mises_unif_acceptance", 0, k, cnt)

\* np.cos(sample): the estimator has no mu
von_mises_unif_acceptance_Run ==
    /\ pc = "start" /\ fn = "von_mises_unif_acceptance"
    /\ \E us \in uniform(n), ua \in uniform(n) :
        LET s == uniform_pi(us)
            v == UnifVal(s, 0, kappa)
            kept == Mask(s, UnifTest(ua, v))
        IN  /\ sample' = s
            /\ val' = v
            /\ acc' = ua
            /\ von_mises' = kept
            /\ result' = Percent(Len(kept), n)
    /\ pc' = "done"
    /\ UNCHANGED << fn, mu, kappa, n, f, c, r, topped, normalVars, xarg >>

Call_von_mises_cauchy_acceptance ==
    \E k \in Kappas, cnt \in Ns : Call("von_mises_cauchy_acceptance", 0, k, cnt)

\* kappa != 0
von_mises_cauchy_acceptance_Run ==
    /\ pc = "start" /\ fn = "von_mises_cauchy_acceptance"
    /\ kappa # Zero
    /\ r' = CauchyParams(kappa)
    /\ CauchyRound(n, << >>)
    /\ result' = Percent(Len(von_mises'), n)
    /\ pc' = "done"
    /\ UNCHANGED << fn, mu, kappa, n, val, topped, normalVars, xarg >>

\* kappa == 0
von_mises_cauchy_acceptance_Else ==
    /\ pc = "start" /\ fn = "von_mises_cauchy_acceptance"
    /\ kappa = Zero
    /\ \E us \in uniform(n) :
        /\ von_mises' = uniform_pi(us)
        /\ result' = Percent(Len(von_mises'), n)
    /\ pc' = "done"
    /\ UNCHANGED << fn, mu, kappa, n, sample, val, f, c, acc, r, topped,
                    normalVars, xarg >>

\* -------------------------------------------------------- von_mises_density
Xs == Mus \cup { 0 - Pi, 2, Pi }       \* x, in units of pi/6

\* -np.pi <= x <= np.pi
InSupport(xv) == (0 - Pi) <= xv /\ xv <= Pi

\* mutation: the indicator of the support is dropped
DensityNoSupport(xv, m, k) == Exp(RMul(k, Cos(xv - m)))

\* np.exp(kappa * np.cos(x - mu)) * (-np.pi <= x <= np.pi), fixed point
von_mises_density(xv, m, k) ==
    Exp(RMul(k, Cos(xv - m))) * (IF InSupport(xv) THEN 1 ELSE 0)

Call_von_mises_density ==
    /\ pc = "idle"
    /\ \E xv \in Xs, m \in Mus, k \in Kappas :
        xarg' = xv /\ mu' = m /\ kappa' = k
    /\ pc' = "start" /\ fn' = "von_mises_density"
    /\ UNCHANGED << n, sample, val, f, c, acc, von_mises, r, result, topped,
                    normalVars >>

von_mises_density_Eval ==
    /\ pc = "start" /\ fn = "von_mises_density"
    /\ result' = von_mises_density(xarg, mu, kappa)
    /\ pc' = "done"
    /\ UNCHANGED << fn, mu, kappa, n, sample, val, f, c, acc, von_mises, r,
                    topped, normalVars, xarg >>

Next ==
    \/ Call_von_mises_unif
    \/ von_mises_unif_First
    \/ von_mises_unif_Continue
    \/ von_mises_unif_TopUp
    \/ von_mises_unif_Return
    \/ Call_von_mises_cauchy
    \/ von_mises_cauchy_First
    \/ von_mises_cauchy_Continue
    \/ von_mises_cauchy_TopUp
    \/ von_mises_cauchy_Else
    \/ von_mises_cauchy_Return
    \/ Call_normal
    \/ normal_First
    \/ normal_Continue
    \/ normal_TopUp
    \/ normal_Return
    \/ Call_von_mises_unif_acceptance
    \/ von_mises_unif_acceptance_Run
    \/ Call_von_mises_cauchy_acceptance
    \/ von_mises_cauchy_acceptance_Run
    \/ von_mises_cauchy_acceptance_Else
    \/ Call_von_mises_density
    \/ von_mises_density_Eval

Spec == Init /\ [][Next]_vars

\* ======================================================================
\* Properties
\* ======================================================================
Samplers == { "von_mises_unif", "von_mises_cauchy" }
Returned(name) == pc = "done" /\ fn = name

\* a proposal round with an acceptance test has just run
AfterRound == fn \in Samplers /\ pc \in { "test", "done" } /\ acc # << >>

\* indices of the latest round whose own statistic passes against its own uniform
PassIdx ==
    IF fn = "von_mises_unif"
    THEN { i \in 1..Len(acc) : Fixed(acc[i]) <= val[i] }
    ELSE { i \in 1..Len(acc) : CauchyPass(c[i], acc[i]) }

\* length of the accepted set before the latest round
PrevLen == Len(von_mises) - Cardinality(PassIdx)

\* the j-th smallest member of a set of indices
Nth(S, j) == CHOOSE i \in S : Cardinality({ h \in S : h < i }) = j - 1

\* C1: both von Mises samplers return exactly n values when they return.
C1_ExactlyN ==
    (pc = "done" /\ fn \in Samplers) => Len(result) = n

\* C2 (as stated): every returned value lies in (-pi, pi]; -pi is never
\* returned.
C2_HalfOpenRange ==
    (pc = "done" /\ fn \in Samplers) =>
        \A i \in 1..Len(result) : (0 - Pi) < result[i] /\ result[i] <= Pi

\* C2 (amended): every value returned by von_mises_unif and von_mises_cauchy
\* lies in the closed interval [-pi, pi]; the lower endpoint can be returned.
C2_ClosedRange ==
    (pc = "done" /\ fn \in Samplers) =>
        \A i \in 1..Len(result) : (0 - Pi) <= result[i] /\ result[i] <= Pi

\* C2 witness: von_mises_cauchy, with a non-zero mu and kappa, returned -pi.
C2_LowerEndpointReturned ==
    /\ Returned("von_mises_cauchy") /\ mu # 0 /\ kappa # Zero
    /\ \E i \in 1..Len(result) : result[i] = 0 - Pi

\* C3: normal returns exactly n values, every kept pair has 0 < U < 1 with
\* U = X**2 + Y**2 for a drawn Y, and each round draws n minus the number of
\* pairs kept before it.
C3_NormalKeepsDiskPairs ==
    fn = "normal" =>
        /\ Len(X) = Len(U)
        /\ \A i \in 1..Len(X) :
              /\ 0 < U[i][1] /\ U[i][1] < U[i][2]
              /\ \E w \in Uniforms :
                    LET y == uniform_1(<< w >>)[1]
                    IN  U[i] = RAdd(RMul(X[i], X[i]), RMul(y, y))
        /\ pc \in { "test", "done" } =>
              LET keptNow == Cardinality({ i \in 1..Len(ub) :
                                             0 < ub[i][1] /\ ub[i][1] < ub[i][2] })
              IN  /\ Len(xb) = Len(ub)
                  /\ Len(xb) = IF topped THEN n - (Len(X) - keptNow) ELSE n
        /\ pc = "done" => Len(result) = n /\ Len(X) = n

\* C3 witness: normal returned n >= 2 values after a top-up round that drew
\* only the shortfall, the first round having dropped a pair.
C3_ReturnedAfterTopUp ==
    /\ Returned("normal") /\ topped /\ n >= 2
    /\ 0 < Len(xb) /\ Len(xb) < n

\* C4: each acceptance estimator runs one batch of n candidates, no top-up
\* round, returns 100 * accepted / n, which lies in [0, 100] and is exactly
\* 100 when kappa = 0.
C4_AcceptanceRate ==
    (pc = "done" /\ fn \in { "von_mises_unif_acceptance",
                             "von_mises_cauchy_acceptance" }) =>
        LET tested == ~ (fn = "von_mises_cauchy_acceptance" /\ kappa = Zero)
            passed == IF ~ tested THEN n
                      ELSE IF fn = "von_mises_unif_acceptance"
                      THEN Cardinality({ i \in 1..n : Fixed(acc[i]) <= val[i] })
                      ELSE Cardinality({ i \in 1..n : CauchyPass(c[i], acc[i]) })
        IN  /\ ~ topped
            /\ tested => Len(sample) = n /\ Len(acc) = n
            /\ Len(von_mises) = passed
            /\ result[2] > 0 /\ result[1] * n = 100 * passed * result[2]
            /\ 0 <= result[1] /\ result[1] <= 100 * result[2]
            /\ kappa = Zero => result = << 100, 1 >>

\* C4 witness: the uniform-proposal estimator ran with kappa = 0 and a test
\* uniform equal to 1.
C4_ZeroKappaFullRate ==
    /\ Returned("von_mises_unif_acceptance") /\ kappa = Zero /\ n >= 2
    /\ \E i \in 1..Len(acc) : acc[i] = << 1, 1 >>

\* C5 (as stated): the density is 0 outside [-pi, pi], and density(mu, mu,
\* kappa) = exp(kappa) for every mu.
C5_PeakForAnyMu ==
    Returned("von_mises_density") =>
        /\ ~ ((0 - Pi) <= xarg /\ xarg <= Pi) => result = 0
        /\ xarg = mu => result = Exp(kappa)

\* C5 (amended): the density is 0 outside [-pi, pi], and density(mu, mu,
\* kappa) = exp(kappa) for every mu inside [-pi, pi].
C5_PeakForMuInSupport ==
    Returned("von_mises_density") =>
        /\ ~ ((0 - Pi) <= xarg /\ xarg <= Pi) => result = 0
        /\ (xarg = mu /\ (0 - Pi) <= mu /\ mu <= Pi) => result = Exp(kappa)

\* C5 witness: the density was evaluated at x = mu inside the support with
\* kappa > 0.
C5_EvaluatedAtPeak ==
    /\ Returned("von_mises_density") /\ xarg = mu /\ mu = 4 /\ kappa # Zero

\* C6: the first round proposes n candidates, every top-up round proposes
\* the shortfall n - len(accepted), and the accepted set never exceeds n.
C6_ShortfallBatches ==
    /\ fn \in Samplers => Len(von_mises) <= n
    /\ AfterRound =>
          Len(sample) = IF topped THEN n - PrevLen ELSE n

\* C7 (as stated): both samplers return (v + pi + mu) mod 2 pi - pi for each
\* accepted v.
C7_BothWrap ==
    (pc = "done" /\ fn \in Samplers) =>
        /\ Len(result) = Len(von_mises)
        /\ \A i \in 1..Len(result) :
              result[i] = ((von_mises[i] + Pi + mu) % (2 * Pi)) - Pi

\* C7 (amended): von_mises_cauchy returns (v + pi + mu) mod 2 pi - pi for
\* each accepted v, applied once at the return; von_mises_unif returns the
\* accepted values unchanged.
C7_OnlyCauchyWraps ==
    fn \in Samplers =>
        /\ pc # "done" => result = << >>
        /\ pc = "done" =>
              /\ Len(result) = Len(von_mises)
              /\ \A i \in 1..Len(result) :
                    result[i] = IF fn = "von_mises_cauchy"
                                THEN ((von_mises[i] + Pi + mu) % (2 * Pi)) - Pi
                                ELSE von_mises[i]

\* C7 witness: von_mises_cauchy returned, after rejection rounds with a
\* non-zero mu, values that differ from the accepted ones.
C7_WrappedReturn ==
    /\ Returned("von_mises_cauchy") /\ mu # 0 /\ kappa # Zero
    /\ \E i \in 1..Len(result) : result[i] # von_mises[i]

\* one step of a looping sampler: the accepted length does not decrease,
\* and a step that returns does so at length n
LoopStep ==
    fn \in { "normal", "von_mises_unif", "von_mises_cauchy" } =>
        LET before == IF fn = "normal" THEN Len(X) ELSE Len(von_mises)
            after == IF fn = "normal" THEN Len(X') ELSE Len(von_mises')
        IN  /\ after >= before
            /\ (pc # "done" /\ pc' = "done") => after = n

\* C8: in normal, von_mises_unif and von_mises_cauchy the accepted length
\* never decreases and the call returns when the length has reached n.
C8_ReachesExactlyN == [][LoopStep]_vars

\* C9: in every round the candidates, their statistics and the test uniforms
\* have one length, each statistic is its own candidate's, and the values
\* appended in the round are exactly the candidates whose own statistic
\* passes against the uniform of the same index, in order.
C9_IndexPairing ==
    AfterRound =>
        /\ Len(sample) = Len(acc)
        /\ IF fn = "von_mises_unif"
           THEN /\ Len(val) = Len(sample)
                /\ \A i \in 1..Len(sample) :
                      val[i] = Exp(RMul(kappa, RSub(Cos(sample[i] - mu), Rat(1))))
           ELSE /\ Len(c) = Len(sample) /\ Len(f) = Len(sample)
                /\ \A i \in 1..Len(sample) :
                      /\ c[i] = RMul(kappa, RSub(r[3], f[i]))
                      /\ sample[i] \in { ArcCos(f[i]), 0, 0 - ArcCos(f[i]) }
        /\ PrevLen >= 0
        /\ \A j \in 1..Cardinality(PassIdx) :
              von_mises[PrevLen + j] = sample[Nth(PassIdx, j)]

\* C9 witness: a top-up round of von_mises_cauchy with at least two
\* candidates rejected its first candidate and accepted a later, different one.
C9_MixedRound ==
    /\ AfterRound /\ fn = "von_mises_cauchy" /\ topped
    /\ 1 \notin PassIdx /\ 2 \in PassIdx
    /\ sample[1] # sample[2]

\* C10 (as stated): with kappa = 0 von_mises_cauchy draws one batch
\* uniform_pi(n), runs no test and no top-up, computes no tau/rho/r, and
\* returns the drawn values themselves.
C10_ReturnsDrawsDirectly ==
    (fn = "von_mises_cauchy" /\ kappa = Zero /\ pc = "done") =>
        /\ ~ topped /\ acc = << >> /\ r = << Unset, Unset, Unset >>
        /\ result = von_mises

\* C10 (amended): with kappa = 0 von_mises_cauchy draws one batch
\* uniform_pi(n), runs no test and no top-up, computes no tau/rho/r, and
\* returns the n drawn values after the wrap (v + pi + mu) mod 2 pi - pi.
C10_BypassThenWrap ==
    (fn = "von_mises_cauchy" /\ kappa = Zero /\ pc \in { "wrap", "done" }) =>
        /\ ~ topped
        /\ acc = << >> /\ sample = << >> /\ f = << >> /\ c = << >>
        /\ r = << Unset, Unset, Unset >>
        /\ Len(von_mises) = n
        /\ \A i \in 1..n :
              \E w \in Uniforms : von_mises[i] * w[2] = 2 * Pi * w[1] - Pi * w[2]
        /\ pc = "done" =>
              /\ Len(result) = n
              /\ \A i \in 1..n :
                    result[i] = ((von_mises[i] + Pi + mu) % (2 * Pi)) - Pi

\* C10 witness: von_mises_cauchy returned with kappa = 0, a non-zero mu and
\* n >= 2, and a returned value differs from the drawn one.
C10_ZeroKappaReturn ==
    /\ Returned("von_mises_cauchy") /\ kappa = Zero /\ mu # 0 /\ n >= 2
    /\ \E i \in 1..n : result[i] # von_mises[i]
====
